---- MODULE Spec2Model ----
(***************************************************************************)
(* Model of the portfolio backend (src/index.js): an Express application   *)
(* over three MongoDB collections (Project, Feedback, HireMe).             *)
(*                                                                         *)
(* Every route handler issues one database call and is one action, except  *)
(* POST /api/projects, which awaits three times (the multer upload, the    *)
(* findOne that reads the largest id, the save) and is three actions, so   *)
(* that other requests interleave where the runtime lets them.             *)
(*                                                                         *)
(* Left out of the documents: the text fields the handlers only copy       *)
(* (title, category, description, client, technologies, name, email, ...); *)
(* the validators that read them are modelled on the request bodies.  A    *)
(* list response is kept as the set of documents it returns.               *)
(***************************************************************************)
EXTENDS Integers, FiniteSets, Sequences, TLC

\* ------------------------------------------------------------------ bounds
NumReq == 2        \* POST /api/projects requests that may be in flight at once
MaxDocs == 2       \* documents ever inserted into one collection
MaxTime == 1       \* largest value of the clock
MaxBodyId == 2     \* largest id a client writes in a body or a path
MaxApproves == 2   \* the count of approvals of one record saturates here

Reqs == 1..NumReq
Collections == {"Project", "Feedback", "HireMe"}

\* An optional field of a request is the empty set (absent) or a singleton.
Opt(S) == {{}} \cup {{x} : x \in S}

VARIABLES
    projects,       \* the Project collection: a set of documents
    feedback,       \* the Feedback collection
    hireRequests,   \* the HireMe collection
    nextOid,        \* per collection, the next native _id (never reused)
    now,            \* the clock read by Date.now() and new Date()
    post,           \* per request slot, a POST /api/projects in flight
    resp,           \* the outcome of the request that finished last
    approveCalled   \* history: per feedback _id, the approvals executed on it

vars == <<projects, feedback, hireRequests, nextOid, now, post, resp,
          approveCalled>>

\* ------------------------------------------------------- requests' inputs
fileSize == 5 * 1024 * 1024
allowedTypes == {"image/jpeg", "image/png", "image/gif"}

Files ==
    [mimetype : {"image/png", "text/html"},
     size : {fileSize, fileSize + 1},
     originalname : {"a.png"}]

\* Request bodies: the well-formed body with each choice of the extra fields a
\* client may add, and that body with one field, or every field, made invalid.
GoodProject ==
    [title |-> "A", category |-> "web", img |-> "x.png", client |-> "object",
     technologies |-> "array", id |-> {}, createdAt |-> {}]

BadProjects ==
    {[GoodProject EXCEPT !.title = ""],
     [GoodProject EXCEPT !.img = ""],
     [GoodProject EXCEPT !.technologies = "string"],
     [GoodProject EXCEPT !.title = "", !.category = "", !.client = "string"]}

\* PUT bodies may carry any id and a createdAt; POST bodies may carry an id.
PutBodies ==
    {[GoodProject EXCEPT !.id = i, !.createdAt = c] :
        i \in Opt(1..MaxBodyId), c \in Opt({0})}
    \cup {[GoodProject EXCEPT !.client = "absent"]} \cup BadProjects

PostBodies ==
    {[GoodProject EXCEPT !.id = i] : i \in {{}, {MaxBodyId}}} \cup BadProjects

GoodFeedback ==
    [name |-> "N", role |-> "R", company |-> "C", email |-> "A@x.io",
     subject |-> "S", message |-> "M", approved |-> {}]

FeedbackBodies ==
    {[GoodFeedback EXCEPT !.approved = a] : a \in Opt(BOOLEAN)}
    \cup {[GoodFeedback EXCEPT ![f] = ""] :
            f \in {"name", "role", "company", "email", "subject", "message"}}
    \cup {[GoodFeedback EXCEPT !.email = "not-an-email", !.name = ""]}

GoodHireMe ==
    [name |-> "N", email |-> "A@x.io", projectType |-> "T",
     projectDescription |-> "D", budget |-> "number"]

HireMeBodies ==
    {GoodHireMe, [GoodHireMe EXCEPT !.budget = "absent"],
     [GoodHireMe EXCEPT !.budget = "text"],
     [GoodHireMe EXCEPT !.email = "not-an-email"]}
    \cup {[GoodHireMe EXCEPT ![f] = ""] :
            f \in {"name", "projectType", "projectDescription"}}

isEmail(s) == s = "A@x.io"

\* The fields each validation chain reports.
validateProject(b) ==
    {f \in {"title", "category", "img"} : b[f] = ""}
    \cup (IF b.client = "string" THEN {"client"} ELSE {})
    \cup (IF b.technologies = "string" THEN {"technologies"} ELSE {})

validateFeedback(b) ==
    {f \in {"name", "role", "company", "subject", "message"} : b[f] = ""}
    \cup (IF isEmail(b.email) THEN {} ELSE {"email"})

validateHireMe(b) ==
    {f \in {"name", "projectType", "projectDescription"} : b[f] = ""}
    \cup (IF isEmail(b.email) THEN {} ELSE {"email"})
    \cup (IF b.budget = "text" THEN {"budget"} ELSE {})

\* ---------------------------------------------------------------- upload
\* Mutant of fileFilter: the callback accepts every content type.
fileFilterAny(f) == TRUE

fileFilter(f) == f.mimetype \in allowedTypes

withinLimits(f) == f.size <= fileSize

filename(f, t) == <<t, "-", f.originalname>>

uploadPath(name) == <<"/uploads/projects/">> \o name

bodyImg(s) == <<s>>

\* -------------------------------------------------------------- responses
NoTrace ==
    [file |-> {}, bodyId |-> {}, maxBefore |-> 0, overlapCreate |-> FALSE,
     overlapWrite |-> FALSE, dbCalls |-> 0]

Response(route, status, message, error, docs, errors, dbFailed, trace) ==
    [route |-> route, status |-> status, message |-> message, error |-> error,
     docs |-> docs, errors |-> errors, dbFailed |-> dbFailed, trace |-> trace]

NoResponse(route, dbFailed, trace) ==
    Response(route, 0, "", "", {}, {}, dbFailed, trace)

errorHandler(route, err, dbFailed, trace) ==
    Response(route, 500, "Something went wrong!", err, {}, {}, dbFailed, trace)

Json(route, status, docs, trace) ==
    Response(route, status, "", "", docs, {}, FALSE, trace)

NotFound(route, what) ==
    Response(route, 404, what, "", {}, {}, FALSE, NoTrace)

ValidationErrors(route, errors, trace) ==
    Response(route, 400, "", "", {}, errors, FALSE, trace)

\* A handler declared (req, res) whose catch block calls next(err): the call
\* raises a ReferenceError inside the async handler, whose promise rejects.
\* What follows depends on the router the build installs: Express 4 drops the
\* rejection and the request gets no response; Express 5 forwards it to
\* errorHandler.  Both outcomes are possible.
nextUndefined(route) ==
    {NoResponse(route, TRUE, NoTrace),
     errorHandler(route, "next is not defined", TRUE, NoTrace)}

\* A handler declared (req, res, next): next(err) reaches errorHandler.
nextDefined(route, err, dbFailed, trace) ==
    errorHandler(route, err, dbFailed, trace)

\* ------------------------------------------------------------------ state
\* The fields of req.body that reach a Project document.
kept(body) == [id |-> body.id, createdAt |-> body.createdAt]

NoBody == [id |-> {}, createdAt |-> {}]

Idle ==
    [pc |-> "idle", body |-> NoBody, file |-> {}, filename |-> <<>>, doc |-> {},
     maxBefore |-> 0, overlapCreate |-> FALSE, overlapWrite |-> FALSE,
     dbCalls |-> 0]

InFlight == {r \in Reqs : post[r].pc # "idle"}

Init ==
    /\ projects = {}
    /\ feedback = {}
    /\ hireRequests = {}
    /\ nextOid = [c \in Collections |-> 1]
    /\ now = 0
    /\ post = [r \in Reqs |-> Idle]
    /\ resp = NoResponse("none", FALSE, NoTrace)
    /\ approveCalled = [oid \in 1..(MaxDocs + 1) |-> 0]

Tick ==
    /\ now < MaxTime
    /\ now' = now + 1
    /\ UNCHANGED <<projects, feedback, hireRequests, nextOid, post, resp,
                   approveCalled>>

\* ------------------------------------------------------- Project routes
\* Project.findOne().sort({ id: -1 }): the documents that may come first.
sortByIdDesc(S) == {d \in S : \A e \in S : e.id <= d.id}

\* Project.find*({ id: req.params.id }): the documents the filter matches.
matchId(S, id) == {d \in S : d.id = id}

\* const newId = lastProject ? lastProject.id + 1 : 1
newId(last) == IF last = {} THEN 1 ELSE (CHOOSE d \in last : TRUE).id + 1

\* Mutant of newProject: the body is spread after id, so its id wins.
newProjectBodyLast(oid, body, id, name, t) ==
    [oid |-> oid,
     id |-> IF body.id = {} THEN id ELSE CHOOSE i \in body.id : TRUE,
     img |-> uploadPath(name),
     createdAt |-> IF body.createdAt = {} THEN t
                   ELSE CHOOSE c \in body.createdAt : TRUE,
     updatedAt |-> t]

\* new Project({ ...req.body, id: newId, img: <upload path>, updatedAt: new Date() })
newProject(oid, body, id, name, t) ==
    [oid |-> oid,
     id |-> id,
     img |-> uploadPath(name),
     createdAt |-> IF body.createdAt = {} THEN t
                   ELSE CHOOSE c \in body.createdAt : TRUE,
     updatedAt |-> t]

\* The update document { ...req.body, updatedAt: new Date() } applied to d.
updateProject(d, body, t) ==
    [oid |-> d.oid,
     id |-> IF body.id = {} THEN d.id ELSE CHOOSE i \in body.id : TRUE,
     img |-> bodyImg(body.img),
     createdAt |-> IF body.createdAt = {} THEN d.createdAt
                   ELSE CHOOSE c \in body.createdAt : TRUE,
     updatedAt |-> t]

MaxId(S) == IF S = {} THEN 0 ELSE (CHOOSE d \in sortByIdDesc(S) : TRUE).id

traceOf(p) ==
    [file |-> p.file, bodyId |-> p.body.id, maxBefore |-> p.maxBefore,
     overlapCreate |-> p.overlapCreate, overlapWrite |-> p.overlapWrite,
     dbCalls |-> p.dbCalls]

startTrace(file, body) ==
    [file |-> file, bodyId |-> body.id, maxBefore |-> MaxId(projects),
     overlapCreate |-> InFlight # {}, overlapWrite |-> FALSE, dbCalls |-> 0]

\* History kept for the requests in flight: another create began, or another
\* request wrote the Project collection, while they were being handled.
noteCreate(r) ==
    [q \in Reqs |-> IF q # r /\ post[q].pc # "idle"
                    THEN [post[q] EXCEPT !.overlapCreate = TRUE] ELSE post[q]]

noteWrite ==
    [q \in Reqs |-> IF post[q].pc # "idle"
                    THEN [post[q] EXCEPT !.overlapWrite = TRUE] ELSE post[q]]

GetProjects(ok) ==
    /\ resp' \in IF ok THEN {Json("GET /api/projects", 200, projects, NoTrace)}
               ELSE nextUndefined("GET /api/projects")
    /\ UNCHANGED <<projects, feedback, hireRequests, nextOid, now, post,
                   approveCalled>>

GetProject(id, ok) ==
    /\ \/ /\ ~ok
          /\ resp' \in nextUndefined("GET /api/projects/:id")
       \/ /\ ok
          /\ matchId(projects, id) = {}
          /\ resp' = NotFound("GET /api/projects/:id", "Project not found")
       \/ /\ ok
          /\ \E d \in matchId(projects, id) :
                resp' = Json("GET /api/projects/:id", 200, {d}, NoTrace)
    /\ UNCHANGED <<projects, feedback, hireRequests, nextOid, now, post,
                   approveCalled>>

\* upload.single('img'), validateProject and the handler up to its first await.
PostProjectReceive(r, file, body) ==
    /\ post[r].pc = "idle"
    /\ LET route == "POST /api/projects"
           trace == startTrace(file, body)
           rejected == \E f \in file : ~fileFilter(f) \/ ~withinLimits(f)
       IN \/ /\ \E f \in file : ~fileFilter(f)
             /\ resp' = errorHandler(route,
                   "Invalid file type. Only JPEG, PNG and GIF allowed.",
                   FALSE, trace)
             /\ post' = post
          \/ /\ \E f \in file : fileFilter(f) /\ ~withinLimits(f)
             /\ resp' = errorHandler(route, "File too large", FALSE, trace)
             /\ post' = post
          \/ /\ ~rejected
             /\ validateProject(body) # {}
             /\ resp' = ValidationErrors(route, validateProject(body), trace)
             /\ post' = post
          \/ /\ ~rejected
             /\ validateProject(body) = {}
             /\ nextOid["Project"] + Cardinality(InFlight) <= MaxDocs
             /\ post' = [noteCreate(r) EXCEPT ![r] =
                   [pc |-> "findOne", body |-> kept(body), file |-> file,
                    filename |-> IF file = {} THEN <<>>
                                 ELSE filename(CHOOSE f \in file : TRUE, now),
                    doc |-> {}, maxBefore |-> trace.maxBefore,
                    overlapCreate |-> trace.overlapCreate,
                    overlapWrite |-> FALSE, dbCalls |-> 1]]
             /\ resp' = resp
    /\ UNCHANGED <<projects, feedback, hireRequests, nextOid, now,
                   approveCalled>>

\* The findOne resolves; the handler builds the document and issues the save.
PostProjectFindOne(r, ok) ==
    /\ post[r].pc = "findOne"
    /\ LET route == "POST /api/projects"
           p == post[r]
       IN \/ /\ ~ok
             /\ resp' = nextDefined(route, "database error", TRUE, traceOf(p))
             /\ post' = [post EXCEPT ![r] = Idle]
             /\ nextOid' = nextOid
          \/ /\ ok
             /\ p.file = {}
             /\ resp' = nextDefined(route,
                   "Cannot read properties of undefined (reading 'filename')",
                   FALSE, traceOf(p))
             /\ post' = [post EXCEPT ![r] = Idle]
             /\ nextOid' = nextOid
          \/ /\ ok
             /\ p.file # {}
             /\ \E last \in (IF projects = {} THEN {{}}
                             ELSE {{d} : d \in sortByIdDesc(projects)}) :
                   post' = [post EXCEPT ![r] = [p EXCEPT
                       !.pc = "save",
                       !.doc = {newProject(nextOid["Project"], p.body,
                                           newId(last), p.filename, now)},
                       !.dbCalls = 2]]
             /\ nextOid' = [nextOid EXCEPT !["Project"] = @ + 1]
             /\ resp' = resp
    /\ UNCHANGED <<projects, feedback, hireRequests, now, approveCalled>>

\* Mutant of save: an insert whose id is taken is dropped (a unique index).
saveIfIdFree(S, doc) ==
    IF \E d \in S, e \in doc : d.id = e.id THEN S ELSE S \cup doc

\* project.save(): the document is inserted; no index constrains id.
save(S, doc) == S \cup doc

\* The save resolves.
PostProjectSave(r, ok) ==
    /\ post[r].pc = "save"
    /\ LET route == "POST /api/projects"
           p == post[r]
       IN \/ /\ ~ok
             /\ resp' = nextDefined(route, "database error", TRUE, traceOf(p))
             /\ projects' = projects
             /\ post' = [post EXCEPT ![r] = Idle]
          \/ /\ ok
             /\ projects' = save(projects, p.doc)
             /\ resp' = Json(route, 201, p.doc, traceOf(p))
             /\ post' = [noteWrite EXCEPT ![r] = Idle]
    /\ UNCHANGED <<feedback, hireRequests, nextOid, now, approveCalled>>

PutProject(id, body, ok) ==
    /\ LET route == "PUT /api/projects/:id"
       IN \/ /\ validateProject(body) # {}
             /\ resp' = ValidationErrors(route, validateProject(body), NoTrace)
             /\ UNCHANGED <<projects, post>>
          \/ /\ validateProject(body) = {}
             /\ ~ok
             /\ resp' \in nextUndefined(route)
             /\ UNCHANGED <<projects, post>>
          \/ /\ validateProject(body) = {}
             /\ ok
             /\ matchId(projects, id) = {}
             /\ resp' = NotFound(route, "Project not found")
             /\ UNCHANGED <<projects, post>>
          \/ /\ validateProject(body) = {}
             /\ ok
             /\ \E d \in matchId(projects, id) :
                   /\ projects' = (projects \ {d})
                                   \cup {updateProject(d, body, now)}
                   /\ resp' = Json(route, 200, {updateProject(d, body, now)},
                                   NoTrace)
             /\ post' = noteWrite
    /\ UNCHANGED <<feedback, hireRequests, nextOid, now, approveCalled>>

DeleteProject(id, ok) ==
    /\ LET route == "DELETE /api/projects/:id"
       IN \/ /\ ~ok
             /\ resp' \in nextUndefined(route)
             /\ UNCHANGED <<projects, post>>
          \/ /\ ok
             /\ matchId(projects, id) = {}
             /\ resp' = NotFound(route, "Project not found")
             /\ UNCHANGED <<projects, post>>
          \/ /\ ok
             /\ \E d \in matchId(projects, id) : projects' = projects \ {d}
             /\ resp' = Response(route, 200, "Project deleted successfully",
                                 "", {}, {}, FALSE, NoTrace)
             /\ post' = noteWrite
    /\ UNCHANGED <<feedback, hireRequests, nextOid, now, approveCalled>>

PathIds == 1..(MaxBodyId + 1)

ProjectNext ==
    \/ \E ok \in BOOLEAN : GetProjects(ok)
    \/ \E id \in PathIds, ok \in BOOLEAN : GetProject(id, ok)
    \/ \E r \in Reqs, file \in Opt(Files), body \in PostBodies :
          PostProjectReceive(r, file, body)
    \/ \E r \in Reqs, ok \in BOOLEAN : PostProjectFindOne(r, ok)
    \/ \E r \in Reqs, ok \in BOOLEAN : PostProjectSave(r, ok)
    \/ \E id \in PathIds, ok \in BOOLEAN : DeleteProject(id, ok)
    \/ \E id \in PathIds, body \in PutBodies, ok \in BOOLEAN :
          PutProject(id, body, ok)
    \/ Tick

SpecProject == Init /\ [][ProjectNext]_vars

\* ------------------------------------------------------ Feedback routes
\* new Feedback(req.body): approved is the body's value, or the schema default.
newFeedback(oid, body) ==
    [oid |-> oid,
     approved |-> IF body.approved = {} THEN FALSE
                  ELSE CHOOSE a \in body.approved : TRUE]

\* Mutant of approve: the update flips the flag.
approveToggle(d) == [d EXCEPT !.approved = ~d.approved]

\* The update { approved: true } applied to d.
approve(d) == [d EXCEPT !.approved = TRUE]

\* Feedback.find*({ _id: req.params.id }): the documents the filter matches.
matchOid(S, oid) == {d \in S : d.oid = oid}

\* The result of Feedback.deleteOne under the connection's write concern
\* (w=majority): the write is acknowledged whether or not a document matched.
deleteResult(matched) ==
    [acknowledged |-> TRUE, deletedCount |-> Cardinality(matched)]

PostFeedback(body, ok) ==
    /\ LET route == "POST /api/feedback"
           doc == newFeedback(nextOid["Feedback"], body)
       IN \/ /\ validateFeedback(body) # {}
             /\ resp' = ValidationErrors(route, validateFeedback(body), NoTrace)
             /\ UNCHANGED <<feedback, nextOid>>
          \/ /\ validateFeedback(body) = {}
             /\ ~ok
             /\ resp' \in nextUndefined(route)
             /\ UNCHANGED <<feedback, nextOid>>
          \/ /\ validateFeedback(body) = {}
             /\ ok
             /\ nextOid["Feedback"] <= MaxDocs
             /\ feedback' = feedback \cup {doc}
             /\ nextOid' = [nextOid EXCEPT !["Feedback"] = @ + 1]
             /\ resp' = Json(route, 201, {doc}, NoTrace)
    /\ UNCHANGED <<projects, hireRequests, now, post, approveCalled>>

GetFeedback(ok) ==
    /\ resp' \in IF ok THEN {Json("GET /api/feedback", 200, feedback, NoTrace)}
               ELSE nextUndefined("GET /api/feedback")
    /\ UNCHANGED <<projects, feedback, hireRequests, nextOid, now, post,
                   approveCalled>>

ApproveFeedback(oid, ok) ==
    /\ LET route == "PUT /api/feedback/:id/approve"
       IN \/ /\ ~ok
             /\ resp' \in nextUndefined(route)
             /\ UNCHANGED <<feedback, approveCalled>>
          \/ /\ ok
             /\ matchOid(feedback, oid) = {}
             /\ resp' = NotFound(route, "Feedback not found")
             /\ UNCHANGED <<feedback, approveCalled>>
          \/ /\ ok
             /\ \E d \in matchOid(feedback, oid) :
                   /\ feedback' = (feedback \ {d}) \cup {approve(d)}
                   /\ resp' = Json(route, 200, {approve(d)}, NoTrace)
             /\ approveCalled' = [approveCalled EXCEPT ![oid] =
                                      IF @ < MaxApproves THEN @ + 1 ELSE @]
    /\ UNCHANGED <<projects, hireRequests, nextOid, now, post>>

DeleteFeedback(oid, ok) ==
    /\ LET route == "DELETE /api/feedback/:id/delete"
           result == deleteResult(matchOid(feedback, oid))
       IN \/ /\ ~ok
             /\ resp' \in nextUndefined(route)
             /\ feedback' = feedback
          \/ /\ ok
             /\ feedback' = feedback \ matchOid(feedback, oid)
             /\ resp' = IF ~result.acknowledged
                        THEN NotFound(route, "Feedback not found")
                        ELSE Json(route, 200, {result}, NoTrace)
    /\ UNCHANGED <<projects, hireRequests, nextOid, now, post, approveCalled>>

PathOids == 1..(MaxDocs + 1)

FeedbackNext ==
    \/ \E body \in FeedbackBodies, ok \in BOOLEAN : PostFeedback(body, ok)
    \/ \E ok \in BOOLEAN : GetFeedback(ok)
    \/ \E oid \in PathOids, ok \in BOOLEAN : ApproveFeedback(oid, ok)
    \/ \E oid \in PathOids, ok \in BOOLEAN : DeleteFeedback(oid, ok)

\* The feedback routes alone.
SpecFeedback == Init /\ [][FeedbackNext]_vars

\* ------------------------------------------------------- Hire-me routes
newHireMe(oid, body) == [oid |-> oid, budget |-> body.budget]

PostHireMe(body, ok) ==
    /\ LET route == "POST /api/hire-me"
           doc == newHireMe(nextOid["HireMe"], body)
       IN \/ /\ validateHireMe(body) # {}
             /\ resp' = ValidationErrors(route, validateHireMe(body), NoTrace)
             /\ UNCHANGED <<hireRequests, nextOid>>
          \/ /\ validateHireMe(body) = {}
             /\ ~ok
             /\ resp' \in nextUndefined(route)
             /\ UNCHANGED <<hireRequests, nextOid>>
          \/ /\ validateHireMe(body) = {}
             /\ ok
             /\ nextOid["HireMe"] <= MaxDocs
             /\ hireRequests' = hireRequests \cup {doc}
             /\ nextOid' = [nextOid EXCEPT !["HireMe"] = @ + 1]
             /\ resp' = Json(route, 201, {doc}, NoTrace)
    /\ UNCHANGED <<projects, feedback, now, post, approveCalled>>

GetHireMe(ok) ==
    /\ resp' \in IF ok THEN {Json("GET /api/hire-me", 200, hireRequests, NoTrace)}
               ELSE nextUndefined("GET /api/hire-me")
    /\ UNCHANGED <<projects, feedback, hireRequests, nextOid, now, post,
                   approveCalled>>

HireMeNext ==
    \/ \E body \in HireMeBodies, ok \in BOOLEAN : PostHireMe(body, ok)
    \/ \E ok \in BOOLEAN : GetHireMe(ok)

\* The hire-me routes alone.
SpecHireMe == Init /\ [][HireMeNext]_vars

\* Project requests handled one at a time: a request begins only when no
\* POST /api/projects is in flight.
OneAtATime == InFlight = {}

SerialNext ==
    \/ \E ok \in BOOLEAN : GetProjects(ok) /\ OneAtATime
    \/ \E id \in PathIds, ok \in BOOLEAN : GetProject(id, ok) /\ OneAtATime
    \/ \E r \in Reqs, file \in Opt(Files), body \in PostBodies :
          PostProjectReceive(r, file, body) /\ OneAtATime
    \/ \E r \in Reqs, ok \in BOOLEAN : PostProjectFindOne(r, ok)
    \/ \E r \in Reqs, ok \in BOOLEAN : PostProjectSave(r, ok)
    \/ \E id \in PathIds, body \in PutBodies, ok \in BOOLEAN :
          PutProject(id, body, ok) /\ OneAtATime
    \/ \E id \in PathIds, ok \in BOOLEAN : DeleteProject(id, ok) /\ OneAtATime
    \/ Tick

SpecSerial == Init /\ [][SerialNext]_vars


\* ------------------------------------------------------------------ claims
PostRoute == "POST /api/projects"

Created == resp.route = PostRoute /\ resp.status = 201

\* C1 as stated: a create accepted while no other create is in progress stores
\* and returns the id (largest id before the request) + 1, or 1 when the
\* collection was empty, whatever id the body carried.
C1_IdIsMaxPlusOne ==
    (Created /\ ~resp.trace.overlapCreate) =>
        \A d \in resp.docs : d \in projects /\ d.id = resp.trace.maxBefore + 1

\* C1 amended: the same, for a create that no other create, update or delete
\* of a project overlaps.
C1_IdIsMaxPlusOneNoOverlap ==
    (Created /\ ~resp.trace.overlapCreate /\ ~resp.trace.overlapWrite) =>
        \A d \in resp.docs : d \in projects /\ d.id = resp.trace.maxBefore + 1

C1_Witness ==
    /\ Created
    /\ ~resp.trace.overlapCreate /\ ~resp.trace.overlapWrite
    /\ resp.trace.maxBefore > 0
    /\ resp.trace.bodyId # {}
    /\ \E d \in resp.docs : d \in projects /\ resp.trace.bodyId # {d.id}

\* The file of the request is one the upload step accepts, written out from
\* the allow-list and the ceiling of the route.
Acceptable(f) ==
    /\ f.mimetype \in {"image/jpeg", "image/png", "image/gif"}
    /\ f.size <= 5 * 1024 * 1024

\* C2: a POST /api/projects with title, category and an acceptable image file
\* is answered 201 and stores a record whose img is /uploads/projects/ followed
\* by the stored file name; one with no image file is answered 400 and stores
\* nothing.  (Requests whose database call fails, or whose other fields are
\* invalid, are left aside.)
C2_UploadCreates ==
    (resp.route = PostRoute /\ ~resp.dbFailed /\ resp.errors \subseteq {"img"}) =>
        /\ (resp.trace.file # {} /\ \A f \in resp.trace.file : Acceptable(f)) =>
              /\ resp.status = 201
              /\ \A d \in resp.docs :
                    d \in projects /\ Head(d.img) = "/uploads/projects/"
        /\ resp.trace.file = {} => resp.status = 400

\* C3: no two stored projects have the same id (checked of requests handled
\* one at a time).
C3_UniqueIds == \A d, e \in projects : d.id = e.id => d = e

\* C4: a PUT that updates a project leaves its createdAt as it was and does
\* not move its updatedAt back.
C4_UpdateKeepsCreatedAt ==
    [][(/\ resp'.route = "PUT /api/projects/:id"
        /\ resp'.status = 200
        /\ projects' # projects) =>
           \A d \in projects, e \in projects' :
               d.oid = e.oid =>
                   e.createdAt = d.createdAt /\ e.updatedAt >= d.updatedAt]_vars

\* C5: POST /api/feedback stores approved = false whatever the body holds; a
\* record is approved only if the approve route ran for it; once approved, a
\* record stays approved as long as it exists.
C5_ApprovedOnlyByApprove ==
    /\ [](/\ (resp.route = "POST /api/feedback" /\ resp.status = 201) =>
                \A d \in resp.docs : ~d.approved
          /\ \A d \in feedback : d.approved => approveCalled[d.oid] > 0)
    /\ [][\A d \in feedback, e \in feedback' :
            (d.oid = e.oid /\ d.approved) => e.approved]_vars

\* C6: deleting a feedback id that matches no record is answered 404 and
\* changes nothing; deleting one that matches removes that record and is
\* answered 200.
C6_DeleteReportsNotFound ==
    [][\A oid \in PathOids :
          DeleteFeedback(oid, TRUE) =>
              IF matchOid(feedback, oid) = {}
              THEN resp'.status = 404 /\ feedback' = feedback
              ELSE resp'.status = 200
                   /\ feedback' = feedback \ matchOid(feedback, oid)]_vars

\* C7: a request whose database call failed is answered 500 with the fixed
\* message and the text of the error.
C7_DbFailureAnswered500 ==
    resp.dbFailed =>
        /\ resp.status = 500
        /\ resp.message = "Something went wrong!"
        /\ resp.error = "database error"

\* C8: approving an existing record answers 200 with approved = true, and
\* approving a record the route has already approved changes nothing stored.
C8_ApproveIdempotent ==
    [][\A oid \in PathOids :
          (ApproveFeedback(oid, TRUE) /\ matchOid(feedback, oid) # {}) =>
              /\ resp'.status = 200
              /\ \A d \in resp'.docs : d.approved /\ d \in feedback'
              /\ approveCalled[oid] > 0 => feedback' = feedback]_vars

C8_Witness ==
    /\ resp.route = "PUT /api/feedback/:id/approve"
    /\ resp.status = 200
    /\ \E d \in resp.docs : d \in feedback /\ approveCalled[d.oid] >= 2

\* C9: a POST /api/projects whose file is of a type outside the allow-list or
\* larger than 5 MiB never reaches the handler: no request in flight carries
\* such a file, its response is the error handler's with no database call
\* issued, and receiving it changes neither the collection nor the requests
\* in flight.
C9_RejectedBeforeHandler ==
    /\ [](/\ \A r \in InFlight : \A f \in post[r].file : Acceptable(f)
          /\ (resp.route = PostRoute /\ \E f \in resp.trace.file : ~Acceptable(f))
                => resp.status = 500 /\ resp.trace.dbCalls = 0)
    /\ [][(/\ resp' # resp
            /\ resp'.route = PostRoute
            /\ \E f \in resp'.trace.file : ~Acceptable(f))
                => projects' = projects /\ post' = post]_vars

C9_Witness ==
    /\ resp.route = PostRoute
    /\ resp.status = 500
    /\ \E f \in resp.trace.file : f.mimetype = "text/html"
    /\ projects # {}

\* C10: nothing guards the id between the read and the save: every save that
\* resolves inserts the document built from the id read earlier, also when
\* the collection already holds that id.
C10_SaveIsUnguarded ==
    [][\A r \in Reqs :
          (post[r].pc = "save" /\ post'[r].pc = "idle" /\ resp'.status = 201)
              => projects' = projects \cup post[r].doc]_vars

\* C10 reached: two overlapping creates have both been stored with one id.
C10_Witness ==
    /\ Created
    /\ resp.trace.overlapCreate
    /\ \E d \in resp.docs : \E e \in projects :
          /\ e # d
          /\ e.id = d.id
          /\ Head(e.img) = "/uploads/projects/"

\* ---------------------------------------------------- the whole service
Next == ProjectNext \/ FeedbackNext \/ HireMeNext

Spec == Init /\ [][Next]_vars
====
